---- MODULE Spec2Model ----
(***************************************************************************)
(* Training control core of retinanet-2:                                   *)
(*   src/retinanet/train/callbacks.py  Callbacks dispatcher, OneCycleLR,   *)
(*                                     LRFinder and the saver observers    *)
(*   src/fpnssd/losses/ssd_loss.py     _hard_negative_mining, SSDLoss      *)
(*                                                                         *)
(* Python floats are modelled as exact rationals <<n, d>> (d > 0, lowest   *)
(* terms): the model follows the arithmetic of the code without rounding.  *)
(* Each component has its own specification (SpecOneCycle, SpecFinder,     *)
(* SpecDispatch, SpecMining, SpecLoss, SpecSaver); a specification leaves  *)
(* the variables of the other components at their idle values.             *)
(***************************************************************************)
EXTENDS Integers, Sequences, FiniteSets, TLC

VARIABLES
    \* ---- OneCycleLR (callbacks.py 162-241) and its runner's optimizer
    oc_cfg,        \* constructor arguments: init_lr, cycle_len, div, cut_div, momentum_range, len_loader
    total_iter,    \* self.total_iter (None until on_train_begin)
    cut_point,     \* self.cut_point  (None until on_train_begin)
    cycle_iter,    \* self.cycle_iter
    cycle_count,   \* self.cycle_count
    oc_opt,        \* runner.optimizer.param_groups
    oc_phase,      \* "new" | "training" | "raised" (an exception left a hook)
    oc_k,          \* history: number of rate updates applied so far
    oc_last,       \* history: the hook that ran last
    \* ---- LRFinder (callbacks.py 244-298) and its runner's optimizer
    lrf_cfg,       \* constructor arguments: len_loader, init_lr, final_lr, beta
    multiplier,    \* self.multiplier
    avg_loss,      \* self.avg_loss
    best_loss,     \* self.best_loss
    find_iter,     \* self.find_iter
    losses,        \* self.losses
    log_lrs,       \* self.log_lrs
    is_find,       \* self.is_find
    lrf_opt,       \* runner.optimizer.param_groups
    lrf_phase,     \* "new" | "training" | "raised"
    lrf_nbatch,    \* history: number of batch-ends that returned
    lrf_nuntrig,   \* history: how many of them began with is_find false
    \* ---- Callbacks dispatcher (callbacks.py 40-75)
    callbacks,     \* self.callbacks
    cb_hook,       \* the hook being broadcast (the last one, once it has ended)
    cb_stack,      \* the for-loops in progress: the dispatcher's, then a nested dispatcher's
    cb_active,     \* id of the leaf observer whose hook is running, 0 when none is
    cb_outcome,    \* "none" | "running" | "returned" | "raised": how the dispatcher call ended
    cb_log,        \* history of this broadcast: <<"call" | "return" | "raise", id, depth>>
    \* ---- _hard_negative_mining (ssd_loss.py 8-23), called on its own
    hnm_cls_loss,  \* argument cls_loss, [N, #anchors]
    hnm_pos,       \* argument pos, [N, #anchors]
    hnm_neg,       \* the mask returned
    hnm_phase,     \* "input" | "done"
    \* ---- SSDLoss.forward (ssd_loss.py 39-65)
    loc_preds,     \* argument loc_preds, [N, #anchors, 4]
    loc_targets,   \* argument loc_targets, [N, #anchors, 4]
    cls_preds,     \* argument cls_preds: log-probabilities, [N, #anchors, #classes]
    cls_targets,   \* argument cls_targets: labels 0 .. #classes - 1, [N, #anchors]
    ssd_neg,       \* the mask _hard_negative_mining returned to forward
    ssd_loss,      \* the value returned: [kind |-> "finite" | "nan" | "inf", value |-> rational]
    ssd_phase,     \* "input" | "done"
    \* ---- ModelSaver, CheckpointSaver, ModelRestorer (callbacks.py 78-133) and
    \*      the runner they observe
    ms_cfg,              \* ModelSaver arguments: save_every, save_name, best_only
    cs_cfg,              \* CheckpointSaver arguments: save_every, save_name
    metrics_val_loss,    \* metrics.val_metrics['loss'] of the current epoch, in hundredths
    metrics_best_loss,   \* metrics.best_loss, in hundredths
    metrics_best_epoch,  \* metrics.best_epoch
    run_model,           \* runner.model.module: its parameter values
    run_opt,             \* runner.optimizer: its state
    run_epoch,           \* the epoch the runner has just finished
    files,               \* model_dir: path -> object written by torch.save
    sv_done,             \* the savers whose on_epoch_end has run for run_epoch
    sv_last,             \* history: what the last saver hook did
    sv_saved,            \* history: path -> runner state when the path was last written
    rs_path,             \* ModelRestorer.checkpoint_path
    rs_model,            \* the model of the run that restores
    rs_opt,              \* the optimizer of the run that restores
    rs_outcome           \* "none" | "restored" | "raised"

ocVars == <<oc_cfg, total_iter, cut_point, cycle_iter, cycle_count, oc_opt,
            oc_phase, oc_k, oc_last>>

lrfVars == <<lrf_cfg, multiplier, avg_loss, best_loss, find_iter, losses, log_lrs,
             is_find, lrf_opt, lrf_phase, lrf_nbatch, lrf_nuntrig>>

cbVars == <<callbacks, cb_hook, cb_stack, cb_active, cb_outcome, cb_log>>

hnmVars == <<hnm_cls_loss, hnm_pos, hnm_neg, hnm_phase>>

ssdVars == <<loc_preds, loc_targets, cls_preds, cls_targets, ssd_neg, ssd_loss, ssd_phase>>

svVars == <<ms_cfg, cs_cfg, metrics_val_loss, metrics_best_loss, metrics_best_epoch,
            run_model, run_opt, run_epoch, files, sv_done, sv_last, sv_saved,
            rs_path, rs_model, rs_opt, rs_outcome>>

vars == <<ocVars, lrfVars, cbVars, hnmVars, ssdVars, svVars>>

\* what the hooks of one component leave alone: every other component
notOcVars == <<lrfVars, cbVars, hnmVars, ssdVars, svVars>>
notLrfVars == <<ocVars, cbVars, hnmVars, ssdVars, svVars>>
notCbVars == <<ocVars, lrfVars, hnmVars, ssdVars, svVars>>
notHnmVars == <<ocVars, lrfVars, cbVars, ssdVars, svVars>>
notSsdVars == <<ocVars, lrfVars, cbVars, hnmVars, svVars>>
notSvVars == <<ocVars, lrfVars, cbVars, hnmVars, ssdVars>>

None == "None"

(***************************************************************************)
(* Exact rationals.                                                        *)
(***************************************************************************)
Abs(x) == IF x < 0 THEN -x ELSE x

RECURSIVE GCD(_, _)
GCD(a, b) == IF b = 0 THEN a ELSE GCD(b, a % b)

\* n/d in lowest terms with a positive denominator (d # 0)
Norm(n, d) ==
    LET g == GCD(Abs(n), Abs(d))
        s == IF d < 0 THEN -1 ELSE 1
    IN  <<(s * n) \div g, (s * d) \div g>>

Q(n) == <<n, 1>>
RAdd(a, b) == Norm(a[1] * b[2] + b[1] * a[2], a[2] * b[2])
RSub(a, b) == Norm(a[1] * b[2] - b[1] * a[2], a[2] * b[2])
RMul(a, b) == Norm(a[1] * b[1], a[2] * b[2])
RDiv(a, b) == Norm(a[1] * b[2], a[2] * b[1])
RLt(a, b) == a[1] * b[2] < b[1] * a[2]
RLe(a, b) == a[1] * b[2] <= b[1] * a[2]

RECURSIVE RPow(_, _)
RPow(a, k) == IF k = 0 THEN Q(1) ELSE RMul(a, RPow(a, k - 1))

(***************************************************************************)
(* Optimizer parameter groups (runner.optimizer.param_groups): a sequence  *)
(* of mappings; pg[key] = value creates the key when it is missing.        *)
(***************************************************************************)
SetKey(pg, key, value) ==
    [x \in (DOMAIN pg) \cup {key} |-> IF x = key THEN value ELSE pg[x]]

SgdGroup(lr) == [lr |-> lr, momentum |-> Q(0)]
AdamGroup(lr) == [lr |-> lr, betas |-> <<<<9, 10>>, <<99, 100>>>>]

\* the optimizers a runner may hold: two groups with distinct starting rates
Optimizers ==
    { <<SgdGroup(<<1, 1000>>), SgdGroup(<<1, 500>>)>>,
      <<AdamGroup(<<1, 1000>>), AdamGroup(<<1, 500>>)>> }

(***************************************************************************)
(* OneCycleLR                                                              *)
(***************************************************************************)
MaxLenLoader == 10      \* largest len_loader explored
MaxCycles == 2          \* rate updates explored: 0 .. MaxCycles * total_iter

OneCycleConfigs ==
    [ init_lr : {<<1, 10>>},
      cycle_len : {1, 2},
      div : {1, 2, 10},
      cut_div : {1, 2, 4, 16},
      momentum_range : {<< <<19, 20>>, <<17, 20>> >>},
      len_loader : 1..MaxLenLoader ]

\* calc_lr, lines 195-198: the divisor of the branch taken is zero
OneCycleLR_lr_percent_raises(ci, cut, total) ==
    IF ci > cut THEN total - cut = 0 ELSE cut = 0

\* a plausible slip: the falling leg measured against the whole cycle
OneCycleLR_lr_percent_whole_cycle(ci, cut, total) ==
    IF ci > cut
    THEN RSub(Q(1), RDiv(Q(ci - cut), Q(total)))
    ELSE RDiv(Q(ci), Q(cut))

\* calc_lr, lines 195-198
OneCycleLR_lr_percent(ci, cut, total) ==
    IF ci > cut
    THEN RSub(Q(1), RDiv(Q(ci - cut), Q(total - cut)))
    ELSE RDiv(Q(ci), Q(cut))

\* a plausible slip: the span of the rate taken as div instead of div - 1
OneCycleLR_lr_res_wide(cfg, percent) ==
    RDiv(RMul(cfg.init_lr, RAdd(Q(1), RMul(percent, Q(cfg.div)))), Q(cfg.div))

\* calc_lr, line 199
OneCycleLR_lr_res(cfg, percent) ==
    RDiv(RMul(cfg.init_lr, RAdd(Q(1), RMul(percent, Q(cfg.div - 1)))), Q(cfg.div))

\* a plausible slip: the end of the cycle tested one iteration late
OneCycleLR_cycle_done_late(ci, total) == ci > total

\* calc_lr, line 202
OneCycleLR_cycle_done(ci, total) == ci = total

\* calc_lr as a whole: the value returned and the counters it leaves behind
OneCycleLR_calc_lr(cfg, ci, cc, cut, total) ==
    IF OneCycleLR_lr_percent_raises(ci, cut, total)
    THEN [raised |-> TRUE, res |-> None, cycle_iter |-> ci, cycle_count |-> cc]
    ELSE LET res == OneCycleLR_lr_res(cfg, OneCycleLR_lr_percent(ci, cut, total))
             ci1 == ci + 1
         IN  IF OneCycleLR_cycle_done(ci1, total)
             THEN [raised |-> FALSE, res |-> res, cycle_iter |-> 0, cycle_count |-> cc + 1]
             ELSE [raised |-> FALSE, res |-> res, cycle_iter |-> ci1, cycle_count |-> cc]

\* calc_momentum, lines 208-211
OneCycleLR_momentum_percent_raises(ci, cut, total) ==
    IF ci > cut THEN total - cut = 0 ELSE cut = 0

OneCycleLR_momentum_percent(ci, cut, total) ==
    IF ci > cut
    THEN RDiv(Q(ci - cut), Q(total - cut))
    ELSE RSub(Q(1), RDiv(Q(ci), Q(cut)))

\* calc_momentum, lines 212-213
OneCycleLR_calc_momentum(cfg, ci, cut, total) ==
    RAdd(cfg.momentum_range[2],
         RMul(OneCycleLR_momentum_percent(ci, cut, total),
              RSub(cfg.momentum_range[1], cfg.momentum_range[2])))

\* update_lr, lines 217-218
OneCycleLR_set_lr(groups, new_lr) ==
    [g \in DOMAIN groups |-> SetKey(groups[g], "lr", new_lr)]

\* update_momentum, lines 223-228
OneCycleLR_set_momentum(groups, new_momentum) ==
    IF "betas" \in DOMAIN groups[1]
    THEN [g \in DOMAIN groups |->
            SetKey(groups[g], "betas", <<new_momentum, groups[g].betas[2]>>)]
    ELSE [g \in DOMAIN groups |-> SetKey(groups[g], "momentum", new_momentum)]

\* update_lr followed by update_momentum (lines 233-234 and 240-241): calc_lr
\* has already advanced cycle_iter when calc_momentum reads it
OneCycleLR_update(cut, total) ==
    LET r == OneCycleLR_calc_lr(oc_cfg, cycle_iter, cycle_count, cut, total)
    IN  IF r.raised
        THEN /\ oc_phase' = "raised"
             /\ UNCHANGED <<cycle_iter, cycle_count, oc_opt, oc_k>>
        ELSE /\ cycle_iter' = r.cycle_iter
             /\ cycle_count' = r.cycle_count
             /\ oc_k' = oc_k + 1
             /\ IF OneCycleLR_momentum_percent_raises(r.cycle_iter, cut, total)
                THEN /\ oc_phase' = "raised"
                     /\ oc_opt' = OneCycleLR_set_lr(oc_opt, r.res)
                ELSE /\ oc_phase' = "training"
                     /\ oc_opt' = OneCycleLR_set_momentum(
                                      OneCycleLR_set_lr(oc_opt, r.res),
                                      OneCycleLR_calc_momentum(oc_cfg, r.cycle_iter, cut, total))

\* on_train_begin, lines 236-241
OneCycleLR_on_train_begin ==
    /\ oc_phase = "new"
    /\ total_iter' = oc_cfg.len_loader * oc_cfg.cycle_len
    /\ cut_point' = (oc_cfg.len_loader * oc_cfg.cycle_len) \div oc_cfg.cut_div
    /\ OneCycleLR_update(cut_point', total_iter')
    /\ oc_last' = "train_begin"
    /\ UNCHANGED <<oc_cfg, notOcVars>>

\* a plausible slip: the is_train test dropped
OneCycleLR_batch_updates_always(is_train) == TRUE

\* on_batch_end, line 232
OneCycleLR_batch_updates(is_train) == is_train

\* on_batch_end, lines 231-234
OneCycleLR_on_batch_end(is_train) ==
    /\ oc_phase = "training"
    /\ oc_k <= MaxCycles * total_iter
    /\ oc_last' = IF is_train THEN "train_batch" ELSE "val_batch"
    /\ IF OneCycleLR_batch_updates(is_train)
       THEN OneCycleLR_update(cut_point, total_iter)
       ELSE UNCHANGED <<cycle_iter, cycle_count, oc_opt, oc_phase, oc_k>>
    /\ UNCHANGED <<oc_cfg, total_iter, cut_point, notOcVars>>

\* __init__, lines 180-191, with the optimizer the runner was given
OneCycleInit ==
    /\ oc_cfg \in OneCycleConfigs
    /\ total_iter = None
    /\ cut_point = None
    /\ cycle_iter = 0
    /\ cycle_count = 0
    /\ oc_opt \in Optimizers
    /\ oc_phase = "new"
    /\ oc_k = 0
    /\ oc_last = "init"

OneCycleNext ==
    \/ OneCycleLR_on_train_begin
    \/ \E is_train \in BOOLEAN : OneCycleLR_on_batch_end(is_train)


(***************************************************************************)
(* LRFinder                                                                *)
(***************************************************************************)
MaxFinderLoader == 3    \* largest len_loader explored
MaxBatches == 4         \* batch-ends explored per run
DivergenceFactor == 4   \* on_batch_end, line 287

\* per-step multipliers whose len_loader-th power is the swept range
Multipliers == {<<1, 2>>, <<1, 1>>, <<2, 1>>}
\* the scalar losses a step report may carry
LossInputs == {Q(0), Q(1), Q(2), Q(10)}

LRFinderConfigs ==
    { [len_loader |-> n, init_lr |-> <<1, 100>>,
       final_lr |-> RMul(<<1, 100>>, RPow(m, n)), beta |-> b] :
         n \in 1..MaxFinderLoader, m \in Multipliers,
         b \in {Q(0), <<1, 2>>, <<3, 4>>, Q(1)} }

\* __init__, line 256: the positive len_loader-th root of final_lr / init_lr
LRFinder_multiplier(cfg) ==
    CHOOSE m \in Multipliers : RPow(m, cfg.len_loader) = RDiv(cfg.final_lr, cfg.init_lr)

\* a plausible slip: the exponent read after the increment of line 266
LRFinder_calc_lr_after_increment(cfg, mult, it) == RMul(cfg.init_lr, RPow(mult, it + 1))

\* calc_lr, line 265
LRFinder_calc_lr(cfg, mult, it) == RMul(cfg.init_lr, RPow(mult, it))

\* a plausible slip: the increment of line 266 left out
LRFinder_next_iter_stuck(it) == it

\* calc_lr, line 266
LRFinder_next_iter(it) == it + 1

\* update_lr, lines 271-272
LRFinder_set_lr(groups, new_lr) ==
    [g \in DOMAIN groups |-> SetKey(groups[g], "lr", new_lr)]

\* on_batch_end, line 277
LRFinder_avg(cfg, avg, loss) ==
    RAdd(RMul(cfg.beta, avg), RMul(RSub(Q(1), cfg.beta), loss))

\* on_batch_end, line 278: the bias correction divides by 1 - beta ** find_iter
LRFinder_smoothing_raises(cfg, it) == RSub(Q(1), RPow(cfg.beta, it)) = Q(0)
LRFinder_smoothed(cfg, avg, it) == RDiv(avg, RSub(Q(1), RPow(cfg.beta, it)))

\* on_batch_end, lines 280-281
LRFinder_best(best, smoothed, it) ==
    IF RLt(smoothed, best) \/ it = 1 THEN smoothed ELSE best

\* a plausible slip: the sweep keeps recording after the trigger
LRFinder_records_always(found) == TRUE

\* on_batch_end, line 283
LRFinder_records(found) == ~found

\* a plausible slip: the comparison of line 287 not strict
LRFinder_diverged_or_equal(it, smoothed, best) ==
    it > 1 /\ RLe(RMul(Q(DivergenceFactor), best), smoothed)

\* on_batch_end, line 287
LRFinder_diverged(it, smoothed, best) ==
    it > 1 /\ RLt(RMul(Q(DivergenceFactor), best), smoothed)

\* on_batch_end, lines 275-288
LRFinder_on_batch_end(is_train, loss) ==
    /\ lrf_phase = "training"
    /\ lrf_nbatch < MaxBatches
    /\ avg_loss' = LRFinder_avg(lrf_cfg, avg_loss, loss)
    /\ IF LRFinder_smoothing_raises(lrf_cfg, find_iter)
       THEN /\ lrf_phase' = "raised"
            /\ UNCHANGED <<best_loss, find_iter, losses, log_lrs, is_find, lrf_opt,
                           lrf_nbatch, lrf_nuntrig>>
       ELSE LET smoothed == LRFinder_smoothed(lrf_cfg, avg_loss', find_iter)
                new_lr == LRFinder_calc_lr(lrf_cfg, multiplier, find_iter)
            IN  /\ best_loss' = LRFinder_best(best_loss, smoothed, find_iter)
                /\ IF LRFinder_records(is_find)
                   THEN /\ losses' = Append(losses, smoothed)
                        /\ find_iter' = LRFinder_next_iter(find_iter)
                        /\ lrf_opt' = LRFinder_set_lr(lrf_opt, new_lr)
                        /\ log_lrs' = Append(log_lrs, new_lr)
                   ELSE UNCHANGED <<losses, find_iter, lrf_opt, log_lrs>>
                /\ is_find' = IF LRFinder_diverged(find_iter', smoothed, best_loss')
                              THEN TRUE ELSE is_find
                /\ lrf_nbatch' = lrf_nbatch + 1
                /\ lrf_nuntrig' = IF is_find THEN lrf_nuntrig ELSE lrf_nuntrig + 1
                /\ UNCHANGED lrf_phase
    /\ UNCHANGED <<lrf_cfg, multiplier, notLrfVars>>

\* on_train_begin, lines 290-291
LRFinder_on_train_begin ==
    /\ lrf_phase = "new"
    /\ lrf_opt' = LRFinder_set_lr(lrf_opt, LRFinder_calc_lr(lrf_cfg, multiplier, find_iter))
    /\ find_iter' = LRFinder_next_iter(find_iter)
    /\ lrf_phase' = "training"
    /\ UNCHANGED <<lrf_cfg, multiplier, avg_loss, best_loss, losses, log_lrs, is_find,
                   lrf_nbatch, lrf_nuntrig, notLrfVars>>

\* __init__, lines 249-262, with the optimizer the runner was given
LRFinderInit ==
    /\ lrf_cfg \in LRFinderConfigs
    /\ multiplier = LRFinder_multiplier(lrf_cfg)
    /\ avg_loss = Q(0)
    /\ best_loss = Q(0)
    /\ find_iter = 0
    /\ losses = <<>>
    /\ log_lrs = <<>>
    /\ is_find = FALSE
    /\ lrf_opt \in Optimizers
    /\ lrf_phase = "new"
    /\ lrf_nbatch = 0
    /\ lrf_nuntrig = 0

LRFinderNext ==
    \/ LRFinder_on_train_begin
    \/ \E is_train \in BOOLEAN, loss \in LossInputs : LRFinder_on_batch_end(is_train, loss)

(***************************************************************************)
(* Callbacks dispatcher.  An observer is a record: a leaf Callback, or a   *)
(* Callbacks instance with its own observer list.  A leaf hook is entered  *)
(* and left in separate steps; whether it returns or raises is the         *)
(* observer's choice.                                                      *)
(***************************************************************************)
MaxObservers == 3       \* leaf observers available to build dispatchers from

Leaf(i) == [cls |-> "Callback", id |-> i, callbacks |-> <<>>]
Nested(cbs) == [cls |-> "Callbacks", id |-> 100 + cbs[1].id, callbacks |-> cbs]

\* lists of distinct leaf observers, in every registration order
LeafLists ==
    UNION { { [j \in 1..n |-> Leaf(f[j])] :
                f \in { g \in [1..n -> 1..MaxObservers] :
                          \A a, b \in 1..n : a # b => g[a] # g[b] } } :
            n \in 0..MaxObservers }

\* the arguments a dispatcher is constructed from: None, a list of observers,
\* another Callbacks, or a list holding a Callbacks instance
ConstructorArgs ==
    {[kind |-> "None", items |-> <<>>]}
    \cup { [kind |-> "list", items |-> l] : l \in LeafLists }
    \cup { [kind |-> "Callbacks", items |-> l] : l \in LeafLists }
    \cup UNION { UNION { { [kind |-> "list",
                            items |-> SubSeq(l, 1, j) \o <<Nested(SubSeq(l, j + 1, Len(l)))>>],
                           [kind |-> "list",
                            items |-> <<Nested(SubSeq(l, 1, j))>> \o SubSeq(l, j + 1, Len(l))] } :
                         j \in 1..(Len(l) - 1) } : l \in LeafLists }

\* __init__, lines 41-47
Callbacks_init(arg) ==
    IF arg.kind = "Callbacks" THEN arg.items
    ELSE IF arg.kind = "None" THEN <<>>
    ELSE arg.items

Hooks == {"on_batch_begin", "on_batch_end", "on_epoch_begin", "on_epoch_end",
          "on_train_begin", "on_train_end"}

\* a plausible slip: the observers visited last-registered first
Callbacks_iter_reversed(cbs) == [j \in 1..Len(cbs) |-> cbs[Len(cbs) + 1 - j]]

\* "for callback in self.callbacks": the order the loop visits them in
Callbacks_iter(cbs) == cbs

\* a plausible slip: the call wrapped in try/except, the loop going on
Callbacks_swallows == FALSE

\* lines 53-75 call the observer bare: what it raises leaves the loop
Callbacks_propagates == TRUE

Frame(cbs) == [cbs |-> Callbacks_iter(cbs), idx |-> 1]
TopFrame == cb_stack[Len(cb_stack)]
Advance(stack) ==
    [stack EXCEPT ![Len(stack)] = [@ EXCEPT !.idx = @ + 1]]
Pop(stack) == SubSeq(stack, 1, Len(stack) - 1)

\* the caller invokes one hook of the dispatcher
Callbacks_broadcast(hook) ==
    /\ cb_outcome # "running"
    /\ cb_hook' = hook
    /\ cb_stack' = <<Frame(callbacks)>>
    /\ cb_active' = 0
    /\ cb_outcome' = "running"
    /\ cb_log' = <<>>
    /\ UNCHANGED <<callbacks, notCbVars>>

Callbacks_on_batch_begin == Callbacks_broadcast("on_batch_begin")
Callbacks_on_batch_end == Callbacks_broadcast("on_batch_end")
Callbacks_on_epoch_begin == Callbacks_broadcast("on_epoch_begin")
Callbacks_on_epoch_end == Callbacks_broadcast("on_epoch_end")
Callbacks_on_train_begin == Callbacks_broadcast("on_train_begin")
Callbacks_on_train_end == Callbacks_broadcast("on_train_end")

\* the loop body: callback.<hook>(...) is called on the next observer
Callbacks_call ==
    /\ cb_outcome = "running" /\ cb_active = 0
    /\ TopFrame.idx <= Len(TopFrame.cbs)
    /\ LET o == TopFrame.cbs[TopFrame.idx]
       IN  /\ cb_log' = Append(cb_log, <<"call", o.id, Len(cb_stack)>>)
           /\ IF o.cls = "Callbacks"
              THEN /\ cb_stack' = Append(cb_stack, Frame(o.callbacks))
                   /\ cb_active' = 0
              ELSE /\ cb_active' = o.id
                   /\ UNCHANGED cb_stack
    /\ UNCHANGED <<callbacks, cb_hook, cb_outcome, notCbVars>>

\* the leaf observer's hook returns: the loop goes on to the next observer
Observer_returns ==
    /\ cb_outcome = "running" /\ cb_active # 0
    /\ cb_log' = Append(cb_log, <<"return", cb_active, Len(cb_stack)>>)
    /\ cb_active' = 0
    /\ cb_stack' = Advance(cb_stack)
    /\ UNCHANGED <<callbacks, cb_hook, cb_outcome, notCbVars>>

\* the leaf observer's hook raises: the exception unwinds every loop
Observer_raises ==
    /\ cb_outcome = "running" /\ cb_active # 0
    /\ cb_log' = Append(cb_log, <<"raise", cb_active, Len(cb_stack)>>)
    /\ cb_active' = 0
    /\ IF Callbacks_propagates
       THEN cb_stack' = <<>> /\ cb_outcome' = "raised"
       ELSE cb_stack' = Advance(cb_stack) /\ UNCHANGED cb_outcome
    /\ UNCHANGED <<callbacks, cb_hook, notCbVars>>

\* the for-loop of a dispatcher is exhausted: its hook returns
Callbacks_return ==
    /\ cb_outcome = "running" /\ cb_active = 0
    /\ TopFrame.idx > Len(TopFrame.cbs)
    /\ IF Len(cb_stack) = 1
       THEN /\ cb_stack' = <<>>
            /\ cb_outcome' = "returned"
            /\ UNCHANGED cb_log
       ELSE /\ cb_stack' = Advance(Pop(cb_stack))
            /\ cb_log' = Append(cb_log,
                   <<"return", Pop(cb_stack)[Len(cb_stack) - 1].cbs[
                                   Pop(cb_stack)[Len(cb_stack) - 1].idx].id,
                     Len(cb_stack) - 1>>)
            /\ UNCHANGED cb_outcome
    /\ UNCHANGED <<callbacks, cb_hook, cb_active, notCbVars>>

CallbacksInit ==
    /\ \E arg \in ConstructorArgs : callbacks = Callbacks_init(arg)
    /\ cb_hook = "none"
    /\ cb_stack = <<>>
    /\ cb_active = 0
    /\ cb_outcome = "none"
    /\ cb_log = <<>>

CallbacksNext ==
    \/ Callbacks_on_batch_begin
    \/ Callbacks_on_batch_end
    \/ Callbacks_on_epoch_begin
    \/ Callbacks_on_epoch_end
    \/ Callbacks_on_train_begin
    \/ Callbacks_on_train_end
    \/ Callbacks_call
    \/ Observer_returns
    \/ Observer_raises
    \/ Callbacks_return

(***************************************************************************)
(* _hard_negative_mining.  A tensor [N, #anchors] is a sequence of rows.   *)
(* Per-anchor losses are whole numbers of tenths.  torch.sort is not       *)
(* stable: among equal values the order it returns is unspecified, so the  *)
(* sort of line 18 is any permutation that leaves the row ascending.       *)
(***************************************************************************)
MaxAnchors == 5         \* anchors per row explored: MaxAnchors - 1 and MaxAnchors
NegPosRatio == 3        \* line 21

\* line 16: cls_loss * (pos.float() - 1)
HNM_suppress(cls_loss, pos) ==
    [n \in DOMAIN cls_loss |->
        [a \in DOMAIN cls_loss[n] |-> cls_loss[n][a] * ((IF pos[n][a] THEN 1 ELSE 0) - 1)]]

\* the orders in which the anchors S of a row can be listed with ascending values
RECURSIVE AscendingOrders(_, _)
AscendingOrders(S, row) ==
    IF S = {} THEN {<<>>}
    ELSE UNION { { <<a>> \o rest : rest \in AscendingOrders(S \ {a}, row) } :
                 a \in { x \in S : \A y \in S : row[x] <= row[y] } }

\* line 18, one row: the index orders an ascending sort may return
HNM_sort_row(row) == AscendingOrders(DOMAIN row, row)

\* every way of picking one element from each set of a sequence of sets
RECURSIVE SeqProduct(_)
SeqProduct(sets) ==
    IF sets = <<>> THEN {<<>>}
    ELSE { <<h>> \o tl : h \in Head(sets), tl \in SeqProduct(Tail(sets)) }

\* line 19, one row: idx.sort(1) of a permutation is its inverse, as 0-based ranks
HNM_rank_row(p) ==
    [a \in DOMAIN p |-> (CHOOSE i \in DOMAIN p : p[i] = a) - 1]

CountTrue(row) == Cardinality({a \in DOMAIN row : row[a]})

\* a plausible slip: the threshold taken over the whole batch
HNM_num_neg_whole_batch(pos) ==
    LET RECURSIVE Sum(_)
        Sum(n) == IF n = 0 THEN 0 ELSE CountTrue(pos[n]) + Sum(n - 1)
    IN  [n \in DOMAIN pos |-> NegPosRatio * Sum(Len(pos))]

\* line 21: 3 * pos.sum(1)
HNM_num_neg(pos) == [n \in DOMAIN pos |-> NegPosRatio * CountTrue(pos[n])]

\* line 22, one row: rank < num_neg[:, None]
HNM_row_mask(p, num_neg_row) ==
    LET rank == HNM_rank_row(p)
    IN  [a \in DOMAIN p |-> rank[a] < num_neg_row]

\* lines 16-23: every mask the call may return; dim 1 is sorted and ranked
\* row by row, so the outcomes of the rows combine freely
HNM_results(cls_loss, pos) ==
    LET t == HNM_suppress(cls_loss, pos)
        num_neg == HNM_num_neg(pos)
    IN  SeqProduct([n \in DOMAIN cls_loss |->
            { HNM_row_mask(p, num_neg[n]) : p \in HNM_sort_row(t[n]) }])

\* inputs: every single row over LossTenths with at most two positives (none,
\* room for all 3-to-1 negatives, more asked for than there are anchors), and
\* batches of two sample rows
LossTenths == {1, 2, 5, 9}
AnchorCounts == {MaxAnchors - 1, MaxAnchors}
RowInputs(A) ==
    [loss : [1..A -> LossTenths],
     pos : { m \in [1..A -> BOOLEAN] : Cardinality({a \in 1..A : m[a]}) <= 2 }]
SampleRows(A) ==
    { [loss |-> [a \in 1..A |-> 5], pos |-> [a \in 1..A |-> a <= k]] : k \in 0..2 }
    \cup { [loss |-> [a \in 1..A |-> IF a % 2 = 0 THEN 9 ELSE a], pos |-> [a \in 1..A |-> a = k]] :
             k \in 1..2 }
MiningInputs ==
    UNION { { <<r>> : r \in RowInputs(A) } \cup (SampleRows(A) \X SampleRows(A)) :
            A \in AnchorCounts }

HNM_call ==
    /\ hnm_phase = "input"
    /\ hnm_neg' \in HNM_results(hnm_cls_loss, hnm_pos)
    /\ hnm_phase' = "done"
    /\ UNCHANGED <<hnm_cls_loss, hnm_pos, notHnmVars>>

MiningInit ==
    /\ \E b \in MiningInputs :
          /\ hnm_cls_loss = [n \in DOMAIN b |-> b[n].loss]
          /\ hnm_pos = [n \in DOMAIN b |-> b[n].pos]
    /\ hnm_neg = <<>>
    /\ hnm_phase = "input"

MiningNext == HNM_call

(***************************************************************************)
(* SSDLoss.forward.  Class log-probabilities are whole numbers <= 0, box   *)
(* coordinates are rationals; the scalar returned is a rational, or the    *)
(* NaN / infinity a float division by zero produces.                       *)
(***************************************************************************)
LossAnchors == 5        \* anchors per sample explored
NumSamples == 2         \* samples per batch explored
NumCoords == 4          \* box coordinates per anchor, lines 42-43
NumClasses == 3         \* labels 0 (background), 1, 2

\* f[1] + ... + f[n]
RECURSIVE SumTo(_, _)
SumTo(f, n) == IF n = 0 THEN Q(0) ELSE RAdd(f[n], SumTo(f, n - 1))

RAbs(a) == <<Abs(a[1]), a[2]>>

\* line 49: cls_targets > 0
SSD_pos(targets) ==
    [n \in DOMAIN targets |-> [a \in DOMAIN targets[n] |-> targets[n][a] > 0]]

\* line 51: pos.sum().item()
SSD_num_pos(pos) ==
    LET RECURSIVE Sum(_)
        Sum(n) == IF n = 0 THEN 0 ELSE CountTrue(pos[n]) + Sum(n - 1)
    IN  Sum(Len(pos))

\* F.smooth_l1_loss, one element: quadratic below 1, linear from 1 on
SmoothL1(d) ==
    IF RLt(RAbs(d), Q(1)) THEN RMul(<<1, 2>>, RMul(d, d)) ELSE RSub(RAbs(d), <<1, 2>>)

\* lines 54-55: smooth L1 summed (size_average=False) over the coordinates of
\* the positive anchors
SSD_loc_loss(preds, targets, pos) ==
    SumTo([n \in DOMAIN pos |->
        SumTo([a \in DOMAIN pos[n] |->
            IF pos[n][a]
            THEN SumTo([c \in 1..NumCoords |->
                     SmoothL1(RSub(preds[n][a][c], targets[n][a][c]))], NumCoords)
            ELSE Q(0)], Len(pos[n]))], Len(pos))

\* line 59: F.nll_loss(..., reduce=False): minus the log-probability of the
\* target class, one value per anchor ([N, #anchors], as line 60 needs it);
\* classes are 0-based, tuples 1-based
SSD_nll(preds, targets) ==
    [n \in DOMAIN targets |->
        [a \in DOMAIN targets[n] |-> 0 - preds[n][a][targets[n][a] + 1]]]

\* a plausible slip: positives and negatives summed separately
SSD_cls_sum_separately(cls_loss, pos, neg) ==
    RAdd(SumTo([n \in DOMAIN pos |->
             SumTo([a \in DOMAIN pos[n] |->
                 IF pos[n][a] THEN Q(cls_loss[n][a]) ELSE Q(0)], Len(pos[n]))], Len(pos)),
         SumTo([n \in DOMAIN pos |->
             SumTo([a \in DOMAIN pos[n] |->
                 IF neg[n][a] THEN Q(cls_loss[n][a]) ELSE Q(0)], Len(pos[n]))], Len(pos)))

\* line 61: cls_loss[pos|neg].sum()
SSD_cls_sum(cls_loss, pos, neg) ==
    SumTo([n \in DOMAIN pos |->
        SumTo([a \in DOMAIN pos[n] |->
            IF pos[n][a] \/ neg[n][a] THEN Q(cls_loss[n][a]) ELSE Q(0)], Len(pos[n]))],
          Len(pos))

\* line 64: a float tensor divided by the Python int num_pos
TorchDiv(x, n) ==
    IF n # 0 THEN [kind |-> "finite", value |-> RDiv(x, Q(n))]
    ELSE IF x = Q(0) THEN [kind |-> "nan", value |-> Q(0)]
    ELSE [kind |-> "inf", value |-> Q(0)]

\* lines 49-65 for one mask neg returned by _hard_negative_mining
SSD_loss_given(lp, lt, cp, ct, neg) ==
    LET pos == SSD_pos(ct)
    IN  TorchDiv(RAdd(SSD_loc_loss(lp, lt, pos), SSD_cls_sum(SSD_nll(cp, ct), pos, neg)),
                 SSD_num_pos(pos))

\* inputs: the first sample's labels are every row with at most two positive
\* anchors (none, room for all 3-to-1 negatives, more negatives asked for than
\* there are); the other samples have no positive, one, or two; and two
\* shapes each of class scores and of boxes
TargetRows ==
    { r \in [1..LossAnchors -> 0..(NumClasses - 1)] :
        Cardinality({a \in 1..LossAnchors : r[a] > 0}) <= 2 }
OtherTargetRows ==
    { [a \in 1..LossAnchors |-> IF a <= k THEN 1 + (a % (NumClasses - 1)) ELSE 0] :
        k \in 0..2 }
TargetInputs ==
    { <<r>> \o rest : r \in TargetRows, rest \in [1..(NumSamples - 1) -> OtherTargetRows] }
ClsPredInputs ==
    { [n \in 1..NumSamples |-> [a \in 1..LossAnchors |->
          [c \in 1..NumClasses |-> 0 - (1 + ((2 * a + 3 * c + n) % 5))]]],
      [n \in 1..NumSamples |-> [a \in 1..LossAnchors |->
          [c \in 1..NumClasses |-> IF c = 1 THEN 0 - 3 * ((a + n) % 2) ELSE 0 - 2]]] }
LocPredInputs ==
    { [n \in 1..NumSamples |-> [a \in 1..LossAnchors |->
          [c \in 1..NumCoords |-> IF c = 1 THEN Q(a) ELSE IF c = 2 THEN <<1, 2>>
                                  ELSE IF c = 3 THEN Q(0 - n) ELSE Q(0)]]],
      [n \in 1..NumSamples |-> [a \in 1..LossAnchors |->
          [c \in 1..NumCoords |-> <<a + n, 4>>]]] }
LocTargetInput ==
    [n \in 1..NumSamples |-> [a \in 1..LossAnchors |-> [c \in 1..NumCoords |-> Q(0)]]]

\* forward, lines 39-65
SSDLoss_forward ==
    /\ ssd_phase = "input"
    /\ \E neg \in HNM_results(SSD_nll(cls_preds, cls_targets), SSD_pos(cls_targets)) :
          /\ ssd_neg' = neg
          /\ ssd_loss' = SSD_loss_given(loc_preds, loc_targets, cls_preds, cls_targets, neg)
    /\ ssd_phase' = "done"
    /\ UNCHANGED <<loc_preds, loc_targets, cls_preds, cls_targets, notSsdVars>>

SSDLossInit ==
    /\ loc_preds \in LocPredInputs
    /\ loc_targets = LocTargetInput
    /\ cls_preds \in ClsPredInputs
    /\ cls_targets \in TargetInputs
    /\ ssd_neg = <<>>
    /\ ssd_loss = None
    /\ ssd_phase = "input"

SSDLossNext == SSDLoss_forward

(***************************************************************************)
(* ModelSaver, CheckpointSaver and ModelRestorer, with the runner whose    *)
(* epochs they observe.  Losses are whole numbers of hundredths; a model's *)
(* parameters and an optimizer's state are opaque values that every epoch  *)
(* of training changes.  model_dir is a map from paths to the objects      *)
(* torch.save wrote there; a path is the save_name template with the       *)
(* values substituted for the placeholders it has.                         *)
(***************************************************************************)
MaxEpochs == 2          \* the runner stops after epoch MaxEpochs

\* validation losses: 0.25, 0.80, 1.26
ValLosses == {25, 80, 126}
\* metrics.best_loss before the first epoch-end
InitialBestLosses == {50, 100000}
SaveEvery == {1, 2}
\* save_name templates: without placeholder, with {epoch}, with {epoch} and {loss}
ModelSaverNames == {"last", "epoch_loss"}
CheckpointSaverNames == {"last", "epoch"}

\* "{:.2}".format(loss): two significant digits (no ValLosses value is a tie)
FormatLoss(loss) ==
    IF loss < 100 THEN loss ELSE ((loss + 5) \div 10) * 10

\* os.path.join(model_dir, save_name).format(epoch=epoch, loss=...), lines 106-107, 128
SavePath(save_name, epoch, loss) ==
    IF save_name = "last" THEN <<"last">>
    ELSE IF save_name = "epoch" THEN <<"epoch", epoch>>
    ELSE <<"epoch_loss", epoch, FormatLoss(loss)>>

\* torch.save(obj, f): the file at the path is created or replaced
TorchSave(dir, path, obj) ==
    [q \in (DOMAIN dir) \cup {path} |-> IF q = path THEN obj ELSE dir[q]]

\* line 108: deepcopy(self.runner.model.module), the module object itself
ModuleSnapshot(model) == [kind |-> "module", params |-> model]

\* save_checkpoint, lines 111-116: the dict written
save_checkpoint(epoch, model_state_dict, optimizer_state_dict) ==
    [kind |-> "dict", epoch |-> epoch + 1,
     state_dict |-> model_state_dict, optimizer |-> optimizer_state_dict]

\* lines 99, 127
Saver_due(epoch, save_every) == epoch % save_every = 0

\* a plausible slip: a loss equal to the best counts as an improvement
ModelSaver_improved_or_equal(loss, best) == loss <= best

\* line 100
ModelSaver_improved(loss, best) == loss < best

\* what a saver hook leaves in the history
SaverEvent(hook, wrote, path) ==
    [hook |-> hook, epoch |-> run_epoch, wrote |-> wrote, path |-> path]

\* ModelSaver.on_epoch_end, lines 96-108
ModelSaver_on_epoch_end ==
    /\ "ModelSaver" \notin sv_done
    /\ rs_outcome = "none"
    /\ LET loss == metrics_val_loss
           due == Saver_due(run_epoch, ms_cfg.save_every)
           improved == due /\ ModelSaver_improved(loss, metrics_best_loss)
           need_save == (~ms_cfg.best_only) \/ improved
           path == SavePath(ms_cfg.save_name, run_epoch, loss)
       IN  /\ metrics_best_loss' = IF improved THEN loss ELSE metrics_best_loss
           /\ metrics_best_epoch' = IF improved THEN run_epoch ELSE metrics_best_epoch
           /\ IF due /\ need_save
              THEN /\ files' = TorchSave(files, path, ModuleSnapshot(run_model))
                   /\ sv_saved' = TorchSave(sv_saved, path,
                                      [saver |-> "ModelSaver", model |-> run_model,
                                       opt |-> run_opt])
                   /\ sv_last' = SaverEvent("ModelSaver", TRUE, path)
              ELSE /\ UNCHANGED <<files, sv_saved>>
                   /\ sv_last' = SaverEvent("ModelSaver", FALSE, <<>>)
    /\ sv_done' = sv_done \cup {"ModelSaver"}
    /\ UNCHANGED <<ms_cfg, cs_cfg, metrics_val_loss, run_model, run_opt, run_epoch,
                   rs_path, rs_model, rs_opt, rs_outcome, notSvVars>>

\* CheckpointSaver.on_epoch_end, lines 125-133
CheckpointSaver_on_epoch_end ==
    /\ "CheckpointSaver" \notin sv_done
    /\ rs_outcome = "none"
    /\ LET loss == metrics_val_loss
           path == SavePath(cs_cfg.save_name, run_epoch, loss)
       IN  IF Saver_due(run_epoch, cs_cfg.save_every)
           THEN /\ files' = TorchSave(files, path,
                                save_checkpoint(run_epoch, run_model, run_opt))
                /\ sv_saved' = TorchSave(sv_saved, path,
                                   [saver |-> "CheckpointSaver", model |-> run_model,
                                    opt |-> run_opt])
                /\ sv_last' = SaverEvent("CheckpointSaver", TRUE, path)
           ELSE /\ UNCHANGED <<files, sv_saved>>
                /\ sv_last' = SaverEvent("CheckpointSaver", FALSE, <<>>)
    /\ sv_done' = sv_done \cup {"CheckpointSaver"}
    /\ UNCHANGED <<ms_cfg, cs_cfg, metrics_val_loss, metrics_best_loss, metrics_best_epoch,
                   run_model, run_opt, run_epoch,
                   rs_path, rs_model, rs_opt, rs_outcome, notSvVars>>

\* the runner trains and validates the next epoch: parameters, optimizer state
\* and validation loss change
Runner_epoch ==
    /\ run_epoch < MaxEpochs
    /\ rs_outcome = "none"
    /\ run_epoch' = run_epoch + 1
    /\ run_model' = run_model + 1
    /\ run_opt' = run_opt + 1
    /\ metrics_val_loss' \in ValLosses
    /\ sv_done' = {}
    /\ UNCHANGED <<ms_cfg, cs_cfg, metrics_best_loss, metrics_best_epoch, files,
                   sv_last, sv_saved, rs_path, rs_model, rs_opt, rs_outcome, notSvVars>>

\* ModelRestorer.on_train_begin, lines 83-86, in a later run that starts from a
\* freshly constructed model and optimizer; state['state_dict'] raises
\* TypeError when the object loaded is a module, not a dict
ModelRestorer_on_train_begin ==
    /\ rs_outcome = "none"
    /\ \E path \in DOMAIN files :
          LET state == files[path]
          IN  /\ rs_path' = path
              /\ IF state.kind = "dict"
                 THEN /\ rs_model' = state.state_dict
                      /\ rs_opt' = state.optimizer
                      /\ rs_outcome' = "restored"
                 ELSE /\ UNCHANGED <<rs_model, rs_opt>>
                      /\ rs_outcome' = "raised"
    /\ UNCHANGED <<ms_cfg, cs_cfg, metrics_val_loss, metrics_best_loss, metrics_best_epoch,
                   run_model, run_opt, run_epoch, files, sv_done, sv_last, sv_saved,
                   notSvVars>>

\* the savers as constructed (lines 90-94, 120-123), the runner after its
\* epoch 0, an empty model_dir, and the fresh model and optimizer (values 0)
\* of the run that will restore
SaverInit ==
    /\ ms_cfg \in [save_every : SaveEvery, save_name : ModelSaverNames, best_only : BOOLEAN]
    /\ cs_cfg \in [save_every : SaveEvery, save_name : CheckpointSaverNames]
    /\ metrics_val_loss \in ValLosses
    /\ metrics_best_loss \in InitialBestLosses
    /\ metrics_best_epoch = 0
    /\ run_model = 1
    /\ run_opt = 11
    /\ run_epoch = 0
    /\ files = <<>>
    /\ sv_done = {}
    /\ sv_last = [hook |-> "none", epoch |-> 0, wrote |-> FALSE, path |-> <<>>]
    /\ sv_saved = <<>>
    /\ rs_path = <<>>
    /\ rs_model = 0
    /\ rs_opt = 0
    /\ rs_outcome = "none"

SaverNext ==
    \/ ModelSaver_on_epoch_end
    \/ CheckpointSaver_on_epoch_end
    \/ Runner_epoch
    \/ ModelRestorer_on_train_begin

(***************************************************************************)
(* OneCycleLR: claims                                                      *)
(***************************************************************************)
\* the rate / momentum a parameter group currently carries
AppliedLr(groups, g) == groups[g].lr
AppliedMomentum(groups, g) ==
    IF "betas" \in DOMAIN groups[g] THEN groups[g].betas[1] ELSE groups[g].momentum

\* index k of the rate update applied last (k = 0 is on_train_begin's)
OcLastK == oc_k - 1

\* the configuration of the worked example of C1
OcExample ==
    /\ oc_cfg.init_lr = <<1, 10>> /\ oc_cfg.div = 10 /\ oc_cfg.cut_div = 4
    /\ oc_cfg.len_loader = 10 /\ oc_cfg.cycle_len = 1

\* The rate applied by update k lies on the triangle: with j = k mod
\* total_iter, on the line from init_lr/div at j = 0 to init_lr at
\* j = cut_point, then on the line from init_lr at cut_point to init_lr/div at
\* total_iter (reached as j = 0 of the next cycle).
OcOnTriangle(lr, k) ==
    LET j == k % total_iter
        rise == cut_point
        fall == total_iter - cut_point
    IN  /\ j <= cut_point =>
             RMul(lr, Q(oc_cfg.div * rise)) =
                 RMul(oc_cfg.init_lr, Q(rise + j * (oc_cfg.div - 1)))
        /\ j > cut_point =>
             RMul(lr, Q(oc_cfg.div * fall)) =
                 RMul(oc_cfg.init_lr, Q(fall + (total_iter - j) * (oc_cfg.div - 1)))
        /\ (k = 0 \/ k = total_iter) => lr = RDiv(oc_cfg.init_lr, Q(oc_cfg.div))
        /\ k = cut_point => lr = oc_cfg.init_lr

OcTriangular == oc_phase = "training" /\ 1 <= cut_point /\ cut_point < total_iter

\* C1 (as amended): for 1 <= cut_point < total_iterations, update k applies
\* init_lr/div at k = 0, rises linearly to init_lr at k = cut_point and falls
\* linearly back to init_lr/div at k = total_iterations; cycle_count
\* increments and cycle_iter resets to 0 within update k = total_iterations - 1
\* (the update that brings cycle_iter to total_iterations), so that update
\* k = total_iterations is computed from cycle_iter = 0.
C1_RateTrajectory ==
    OcTriangular =>
        /\ \A g \in DOMAIN oc_opt : OcOnTriangle(AppliedLr(oc_opt, g), OcLastK)
        /\ cycle_count = (OcLastK + 1) \div total_iter
        /\ cycle_iter = (OcLastK + 1) % total_iter

\* C1 witness: the worked example at update k = total_iterations = 10
C1_Witness ==
    /\ oc_phase = "training" /\ OcExample
    /\ OcLastK = total_iter
    /\ \A g \in DOMAIN oc_opt : AppliedLr(oc_opt, g) = <<1, 100>>
    /\ cycle_count = 1

\* C1 as stated: the same trajectory, with cycle_count incrementing and
\* cycle_iter resetting only once update k = total_iterations has been applied.
C1_Original ==
    OcTriangular =>
        /\ \A g \in DOMAIN oc_opt : OcOnTriangle(AppliedLr(oc_opt, g), OcLastK)
        /\ OcLastK < total_iter => cycle_count = 0
        /\ OcLastK = total_iter => (cycle_count = 1 /\ cycle_iter = 0)

\* C8 as stated: the momentum applied by a hook is the inverse of the rate
\* applied by the same hook: momentum_range[0] together with init_lr/div after
\* on_train_begin, and momentum_range[1] + (1 - p)(momentum_range[0] -
\* momentum_range[1]) with p the fraction of the rate just applied, so that the
\* peak rate init_lr comes with the minimum momentum momentum_range[1].
C8_MomentumInverseOfRate ==
    OcTriangular =>
        \A g \in DOMAIN oc_opt :
            LET p == OneCycleLR_lr_percent(OcLastK % total_iter, cut_point, total_iter)
            IN  /\ OcLastK = 0 =>
                     /\ AppliedLr(oc_opt, g) = RDiv(oc_cfg.init_lr, Q(oc_cfg.div))
                     /\ AppliedMomentum(oc_opt, g) = oc_cfg.momentum_range[1]
                /\ AppliedMomentum(oc_opt, g) =
                       RAdd(oc_cfg.momentum_range[2],
                            RMul(RSub(Q(1), p),
                                 RSub(oc_cfg.momentum_range[1], oc_cfg.momentum_range[2])))
                /\ OcLastK % total_iter = cut_point =>
                       /\ AppliedLr(oc_opt, g) = oc_cfg.init_lr
                       /\ AppliedMomentum(oc_opt, g) = oc_cfg.momentum_range[2]

\* C9: a validation batch-end changes neither the counters nor any parameter
\* group, so the rate applied depends on the training batch-ends alone.
C9_ValidationIgnored ==
    [][oc_last' = "val_batch" =>
          UNCHANGED <<cycle_iter, cycle_count, oc_opt, oc_k, total_iter, cut_point>>]_vars

\* C9 witness: a validation batch-end seen after training batch-ends
C9_Witness ==
    /\ oc_phase = "training" /\ oc_last = "val_batch" /\ oc_k >= 3
    /\ cycle_iter = oc_k % total_iter

\* C18: once on_train_begin has returned, through any batch-ends that return,
\* 0 <= cycle_iter < total_iter; cycle_count never decreases and grows by one
\* exactly on the rate updates that bring cycle_iter to total_iter; after
\* on_train_begin and n training batch-ends (oc_k = n + 1 rate updates)
\* cycle_count = (n + 1) div total_iter and cycle_iter = (n + 1) mod total_iter.
C18_Counters ==
    /\ [](oc_phase = "training" =>
            /\ total_iter >= 1
            /\ 0 <= cycle_iter /\ cycle_iter < total_iter
            /\ cycle_count = oc_k \div total_iter
            /\ cycle_iter = oc_k % total_iter)
    /\ [][(oc_phase = "training" /\ oc_phase' = "training") =>
             /\ cycle_count' >= cycle_count
             /\ oc_last' = "val_batch" => UNCHANGED <<cycle_iter, cycle_count, oc_k>>
             /\ oc_last' = "train_batch" =>
                   /\ oc_k' = oc_k + 1
                   /\ cycle_count' = cycle_count +
                          (IF cycle_iter + 1 = total_iter THEN 1 ELSE 0)
                   /\ cycle_iter' = (cycle_iter + 1) % total_iter]_vars

\* C18 witness: the second cycle has just ended on a training batch-end, with
\* validation batch-ends possible in between
C18_Witness ==
    /\ oc_phase = "training" /\ oc_last = "train_batch"
    /\ total_iter >= 3
    /\ cycle_count = 2 /\ cycle_iter = 0
    /\ oc_k = 2 * total_iter

\* C19: with div >= 1 and len_loader * cycle_len >= cut_div >= 1 no hook
\* raises (no division by zero in calc_lr or calc_momentum), and the rate of
\* every parameter group after on_train_begin and after every training
\* batch-end lies in [init_lr / div, init_lr].
C19_RateBounded ==
    (/\ oc_cfg.div >= 1
     /\ oc_cfg.cut_div >= 1
     /\ oc_cfg.len_loader * oc_cfg.cycle_len >= oc_cfg.cut_div) =>
        /\ oc_phase # "raised"
        /\ oc_phase = "training" =>
              /\ cut_point >= 1
              /\ \A g \in DOMAIN oc_opt :
                    /\ RLe(RDiv(oc_cfg.init_lr, Q(oc_cfg.div)), AppliedLr(oc_opt, g))
                    /\ RLe(AppliedLr(oc_opt, g), oc_cfg.init_lr)

\* C19 witness: cut_point = total_iter, a cycle completed, the rate strictly
\* inside the interval
C19_Witness ==
    /\ oc_phase = "training" /\ oc_last = "train_batch"
    /\ cut_point = total_iter /\ total_iter >= 3
    /\ cycle_count = 1 /\ cycle_iter = 2
    /\ oc_cfg.div = 10
    /\ \A g \in DOMAIN oc_opt :
          /\ RLt(RDiv(oc_cfg.init_lr, Q(oc_cfg.div)), AppliedLr(oc_opt, g))
          /\ RLt(AppliedLr(oc_opt, g), oc_cfg.init_lr)

(***************************************************************************)
(* LRFinder: claims                                                        *)
(***************************************************************************)
\* C2: once is_find is set it stays set, and no later batch-end changes the
\* recorded lists, find_iter or the rate of any parameter group.
C2_TriggerSticky ==
    [][is_find =>
          /\ is_find'
          /\ losses' = losses
          /\ log_lrs' = log_lrs
          /\ find_iter' = find_iter
          /\ \A g \in DOMAIN lrf_opt : AppliedLr(lrf_opt', g) = AppliedLr(lrf_opt, g)]_vars

\* C2 witness: a batch-end has returned after the trigger was set
C2_Witness ==
    /\ is_find
    /\ lrf_nbatch >= lrf_nuntrig + 2
    /\ Len(losses) = lrf_nuntrig

\* C10: on_train_begin applies init_lr; every batch-end that begins untriggered
\* multiplies the applied rate by multiplier, whose len_loader-th power is
\* final_lr / init_lr; so after j such batch-ends the rate is
\* init_lr * multiplier^j, which is final_lr at j = len_loader.
C10_Sweep ==
    /\ [](lrf_phase = "training" =>
            /\ RPow(multiplier, lrf_cfg.len_loader) = RDiv(lrf_cfg.final_lr, lrf_cfg.init_lr)
            /\ \A g \in DOMAIN lrf_opt :
                 /\ lrf_nuntrig = 0 => AppliedLr(lrf_opt, g) = lrf_cfg.init_lr
                 /\ lrf_nuntrig = lrf_cfg.len_loader =>
                        AppliedLr(lrf_opt, g) = lrf_cfg.final_lr
                 /\ RDiv(AppliedLr(lrf_opt, g), lrf_cfg.init_lr) =
                        RPow(multiplier, lrf_nuntrig))
    /\ [][(lrf_phase = "training" /\ lrf_nuntrig' = lrf_nuntrig + 1) =>
             \A g \in DOMAIN lrf_opt :
                 AppliedLr(lrf_opt', g) = RMul(AppliedLr(lrf_opt, g), multiplier)]_vars

\* C10 witness: a sweep of len_loader >= 2 untriggered batch-ends that ends on
\* final_lr, away from init_lr
C10_Witness ==
    /\ lrf_phase = "training"
    /\ lrf_cfg.len_loader >= 2
    /\ lrf_nuntrig = lrf_cfg.len_loader
    /\ lrf_cfg.final_lr # lrf_cfg.init_lr
    /\ \A g \in DOMAIN lrf_opt : AppliedLr(lrf_opt, g) = lrf_cfg.final_lr

\* sequence a is an initial part of sequence b
IsPrefix(a, b) == Len(a) <= Len(b) /\ SubSeq(b, 1, Len(a)) = a

\* the smallest of a non-empty sequence of rationals
RECURSIVE RMinOf(_)
RMinOf(q) ==
    IF Len(q) = 1 THEN q[1]
    ELSE LET m == RMinOf(Tail(q)) IN IF RLt(m, q[1]) THEN m ELSE q[1]

\* C11: after on_train_begin, a batch-end that begins untriggered sets is_find
\* exactly when its bias-corrected smoothed loss (the value it records) exceeds
\* 4 times the best (smallest) smoothed loss observed so far; so the first
\* batch-end whose smoothed loss does exceed it leaves is_find set.
C11_DivergenceDetection ==
    [][(lrf_phase = "training" /\ lrf_nbatch' = lrf_nbatch + 1 /\ ~is_find) =>
          LET smoothed == losses'[Len(losses')]
          IN  /\ Len(losses') = Len(losses) + 1
              /\ best_loss' = RMinOf(losses')
              /\ is_find' <=> RLt(RMul(Q(DivergenceFactor), best_loss'), smoothed)]_vars

\* C11 witness: the trigger was set by the third batch-end of an increasing
\* loss sequence, the two before it not exceeding 4 x best
C11_Witness ==
    /\ is_find
    /\ Len(losses) = 3
    /\ RLt(losses[1], losses[2]) /\ RLt(losses[2], losses[3])
    /\ RLe(losses[2], RMul(Q(DivergenceFactor), losses[1]))
    /\ RLt(RMul(Q(DivergenceFactor), losses[1]), losses[3])

\* C20: once on_train_begin has run, through any batch-ends, losses and
\* log_lrs have the same length, find_iter - 1; a batch-end appends at most one
\* entry to each and removes or rewrites none.
C20_CurvePaired ==
    /\ [](lrf_phase \in {"training", "raised"} =>
            /\ Len(losses) = Len(log_lrs)
            /\ Len(losses) = find_iter - 1)
    /\ [][/\ IsPrefix(losses, losses') /\ Len(losses') <= Len(losses) + 1
          /\ IsPrefix(log_lrs, log_lrs') /\ Len(log_lrs') <= Len(log_lrs) + 1]_vars

\* C20 witness: three entries recorded, then batch-ends after the trigger
C20_Witness ==
    /\ lrf_phase = "training" /\ is_find
    /\ Len(losses) = 3 /\ Len(log_lrs) = 3 /\ find_iter = 4
    /\ lrf_nbatch = 4
    /\ log_lrs[1] # log_lrs[2]

(***************************************************************************)
(* Callbacks dispatcher: claims                                            *)
(***************************************************************************)
IsTopCallOrReturn(e) == e[3] = 1 /\ e[1] # "raise"
IsTopCall(e) == e[3] = 1 /\ e[1] = "call"
IsRaise(e) == e[1] = "raise"

\* what the dispatcher itself did to its own observers during this broadcast
TopEvents == SelectSeq(cb_log, IsTopCallOrReturn)

\* o1 called, o1 returned, o2 called, o2 returned, ... in registration order
InOrderEvents ==
    [k \in 1..(2 * Len(callbacks)) |->
        IF k % 2 = 1 THEN <<"call", callbacks[(k + 1) \div 2].id, 1>>
                     ELSE <<"return", callbacks[k \div 2].id, 1>>]


\* C3: a dispatcher call that returns has invoked the hook exactly once on
\* every observer, in registration order, each one entered only after the one
\* before it has returned.
C3_BroadcastOrder ==
    /\ cb_outcome = "running" => IsPrefix(TopEvents, InOrderEvents)
    /\ cb_outcome = "returned" => TopEvents = InOrderEvents

\* C3 witness: on_epoch_end broadcast to three observers has returned
C3_Witness ==
    /\ cb_outcome = "returned" /\ cb_hook = "on_epoch_end"
    /\ Len(callbacks) >= 3
    /\ Len(TopEvents) = 2 * Len(callbacks)

\* C4: when observer oi raises during a broadcast, the observers before oi have
\* been invoked (and have returned), no observer after oi is invoked for that
\* event, and the exception ends the dispatcher call.
C4_FaultPropagation ==
    LET raises == SelectSeq(cb_log, IsRaise)
        i == Len(SelectSeq(cb_log, IsTopCall))
    IN  /\ Len(raises) > 0 =>
              /\ cb_outcome = "raised"
              /\ Len(raises) = 1
              /\ IsRaise(cb_log[Len(cb_log)])
        /\ cb_outcome = "raised" =>
              /\ Len(raises) = 1
              /\ 1 <= i /\ i <= Len(callbacks)
              /\ TopEvents = SubSeq(InOrderEvents, 1, 2 * i - 1)

\* C4 witness: the second of three observers raised
C4_Witness ==
    /\ cb_outcome = "raised"
    /\ Len(callbacks) = 3
    /\ Len(SelectSeq(cb_log, IsTopCall)) = 2
    /\ cb_log[Len(cb_log)] = <<"raise", callbacks[2].id, 1>>

\* C15 as stated: whatever the constructor was given, the dispatcher's observer
\* sequence holds no Callbacks instance, so every hook call of a broadcast is
\* made by the dispatcher itself, one level deep.
C15_Flattened ==
    /\ \A i \in DOMAIN callbacks : callbacks[i].cls # "Callbacks"
    /\ \A k \in DOMAIN cb_log : cb_log[k][3] = 1

(***************************************************************************)
(* _hard_negative_mining: claims                                           *)
(***************************************************************************)
Min(a, b) == IF a <= b THEN a ELSE b
Marked(row) == {a \in DOMAIN row : row[a]}

\* C5 as stated: in each row the returned mask marks exactly
\* min(3 * positives, A - positives) anchors, none of them a positive anchor.
C5_CountAndDisjoint ==
    hnm_phase = "done" =>
        \A n \in DOMAIN hnm_pos :
            /\ Cardinality(Marked(hnm_neg[n])) =
                   Min(NegPosRatio * CountTrue(hnm_pos[n]),
                       Len(hnm_pos[n]) - CountTrue(hnm_pos[n]))
            /\ Marked(hnm_neg[n]) \cap Marked(hnm_pos[n]) = {}

\* the 3 * positive_count label-0 anchors of a row with the highest loss, ties
\* going to the lower anchor index
HighestLossNegatives(loss, pos) ==
    LET label0 == (DOMAIN loss) \ Marked(pos)
        Before(a) == { b \in label0 : loss[b] > loss[a] \/ (loss[b] = loss[a] /\ b < a) }
    IN  { a \in label0 : Cardinality(Before(a)) < NegPosRatio * CountTrue(pos) }

\* C6 as stated: row by row, and from that row alone, the anchors marked are
\* the 3 * positive_count label-0 anchors with the highest loss (ties by
\* anchor index); a row without positives gets none.
C6_HighestLossChosen ==
    hnm_phase = "done" =>
        \A n \in DOMAIN hnm_pos :
            Marked(hnm_neg[n]) = HighestLossNegatives(hnm_cls_loss[n], hnm_pos[n])

(***************************************************************************)
(* SSDLoss.forward: claims                                                 *)
(***************************************************************************)
\* C7 as stated: on a batch without any positive anchor forward yields zero
\* or an explicit error, never the NaN or infinity of a division by a zero
\* positive count.
C7_ZeroPositivesDefined ==
    (ssd_phase = "done" /\ SSD_num_pos(SSD_pos(cls_targets)) = 0) =>
        \/ (ssd_loss.kind = "finite" /\ ssd_loss.value = Q(0))
        \/ ssd_loss.kind = "error"

(***************************************************************************)
(* Savers and restorer: claims                                             *)
(***************************************************************************)
\* the step is the on_epoch_end hook of the named saver
SaverStep(saver) == saver \notin sv_done /\ sv_done' = sv_done \cup {saver}

\* the step wrote the object obj to some path of model_dir
Persisted(obj) ==
    /\ sv_last'.wrote
    /\ sv_last'.path \in DOMAIN files'
    /\ files' = TorchSave(files, sv_last'.path, obj)

\* C12: ModelSaver.on_epoch_end acts only when epoch mod save_every = 0: it
\* then writes a model snapshot iff the loss is strictly below the running best
\* or the saver is not best-only, and moves the running best to (loss, epoch)
\* when the loss improved; on any other epoch it writes nothing and leaves the
\* running best alone.  metrics.best_loss never increases.
C12_ModelSaverPolicy ==
    [][/\ metrics_best_loss' <= metrics_best_loss
       /\ SaverStep("ModelSaver") =>
            LET due == run_epoch % ms_cfg.save_every = 0
                improved == metrics_val_loss < metrics_best_loss
            IN  /\ (due /\ (improved \/ ~ms_cfg.best_only)) =>
                       Persisted(ModuleSnapshot(run_model))
                /\ ~(due /\ (improved \/ ~ms_cfg.best_only)) =>
                       (files' = files /\ ~sv_last'.wrote)
                /\ (due /\ improved) =>
                       /\ metrics_best_loss' = metrics_val_loss
                       /\ metrics_best_epoch' = run_epoch
                /\ ~(due /\ improved) =>
                       UNCHANGED <<metrics_best_loss, metrics_best_epoch>>]_vars

\* C12 witness: a best-only saver with save_every = 2 skipped epoch 1 and wrote
\* at epoch 2, whose loss improved on the best
C12_Witness ==
    /\ sv_last.hook = "ModelSaver" /\ sv_last.wrote /\ sv_last.epoch = 2
    /\ ms_cfg.best_only /\ ms_cfg.save_every = 2
    /\ metrics_best_epoch = 2 /\ metrics_best_loss = metrics_val_loss
    /\ ms_cfg.save_name = "epoch_loss"
    /\ DOMAIN files = {SavePath("epoch_loss", 0, 80), SavePath("epoch_loss", 2, 25)}

\* C13 as stated: CheckpointSaver.on_epoch_end(epoch) writes a record iff
\* epoch mod save_every = 0, whatever the loss, and never touches the running
\* best; the record holds the epoch index of that epoch-end together with the
\* model state and the optimizer state of that moment.
C13_CheckpointRecord ==
    [][SaverStep("CheckpointSaver") =>
          /\ UNCHANGED <<metrics_best_loss, metrics_best_epoch>>
          /\ IF run_epoch % cs_cfg.save_every = 0
             THEN Persisted([kind |-> "dict", epoch |-> run_epoch,
                             state_dict |-> run_model, optimizer |-> run_opt])
             ELSE files' = files /\ ~sv_last'.wrote]_vars

\* the objects a saver may have left at the path restored from
IsSaverFile(path) == path \in DOMAIN sv_saved

\* C14 as stated: loading, with ModelRestorer.on_train_begin, a snapshot that
\* CheckpointSaver or ModelSaver wrote makes the fresh model and optimizer
\* equal to the model state and optimizer state that were saved.
C14_RoundTrip ==
    (rs_outcome # "none" /\ IsSaverFile(rs_path)) =>
        /\ rs_outcome = "restored"
        /\ rs_model = sv_saved[rs_path].model
        /\ rs_opt = sv_saved[rs_path].opt

\* the rows of a batch tensor x rearranged by the permutation perm
PermuteRows(x, perm) == [n \in DOMAIN x |-> x[perm[n]]]

\* every (mask, loss) forward may produce on the batch rearranged by perm
ForwardOutcomes(perm) ==
    LET lp == PermuteRows(loc_preds, perm)
        lt == PermuteRows(loc_targets, perm)
        cp == PermuteRows(cls_preds, perm)
        ct == PermuteRows(cls_targets, perm)
    IN  { <<neg, SSD_loss_given(lp, lt, cp, ct, neg)>> :
            neg \in HNM_results(SSD_nll(cp, ct), SSD_pos(ct)) }

RECURSIVE RSumOver(_, _)
RSumOver(S, f) ==
    IF S = {} THEN Q(0)
    ELSE LET x == CHOOSE y \in S : TRUE IN RAdd(f[x], RSumOver(S \ {x}, f))

\* the anchors <<sample, anchor>> of the batch, the positive ones, the selected ones
Anchors == { <<n, a>> : n \in DOMAIN cls_targets, a \in 1..LossAnchors }
PositiveAnchors == { x \in Anchors : cls_targets[x[1]][x[2]] > 0 }
SelectedAnchors == { x \in Anchors : ssd_neg[x[1]][x[2]] }

\* localization loss of one anchor: over its coordinates, d^2 / 2 where
\* |d| < 1 and |d| - 1/2 elsewhere, d = prediction - target
AnchorLocLoss(x) ==
    RSumOver(1..NumCoords,
        [c \in 1..NumCoords |->
            LET d == RSub(loc_preds[x[1]][x[2]][c], loc_targets[x[1]][x[2]][c])
                m == IF RLt(d, Q(0)) THEN RSub(Q(0), d) ELSE d
            IN  IF RLt(m, Q(1)) THEN RDiv(RMul(d, d), Q(2)) ELSE RSub(m, <<1, 2>>)])

\* classification loss of one anchor: minus the log-probability of its label
AnchorClsLoss(x) == Q(0 - cls_preds[x[1]][x[2]][cls_targets[x[1]][x[2]] + 1])

\* C17: on a batch with a positive anchor the scalar is (localization losses of
\* the positive anchors + classification losses of the anchors that are
\* positive or selected, each once) / number of positive anchors of the batch.
C17_LossValue ==
    (ssd_phase = "done" /\ PositiveAnchors # {}) =>
        /\ ssd_loss.kind = "finite"
        /\ ssd_loss.value =
              RDiv(RAdd(RSumOver(PositiveAnchors,
                                 [x \in PositiveAnchors |-> AnchorLocLoss(x)]),
                        RSumOver(PositiveAnchors \cup SelectedAnchors,
                                 [x \in PositiveAnchors \cup SelectedAnchors |->
                                     AnchorClsLoss(x)])),
                   Q(Cardinality(PositiveAnchors)))

\* C17 witness: a batch in which a selected anchor is also positive, another
\* anchor is neither, and the positives carry localization loss
C17_Witness ==
    /\ ssd_phase = "done"
    /\ PositiveAnchors \cap SelectedAnchors # {}
    /\ Anchors \ (PositiveAnchors \cup SelectedAnchors) # {}
    /\ \E x \in PositiveAnchors : AnchorLocLoss(x) # Q(0)
    /\ \E x \in Anchors \ (PositiveAnchors \cup SelectedAnchors) : AnchorClsLoss(x) # Q(0)
    /\ Cardinality(PositiveAnchors) = 3
    /\ ssd_loss.kind = "finite"

(***************************************************************************)
(* Specifications: one per component, the others idle.                     *)
(***************************************************************************)
OneCycleIdle ==
    /\ oc_cfg = None /\ total_iter = None /\ cut_point = None
    /\ cycle_iter = 0 /\ cycle_count = 0 /\ oc_opt = <<>>
    /\ oc_phase = "idle" /\ oc_k = 0 /\ oc_last = "init"

LRFinderIdle ==
    /\ lrf_cfg = None /\ multiplier = None /\ avg_loss = Q(0) /\ best_loss = Q(0)
    /\ find_iter = 0 /\ losses = <<>> /\ log_lrs = <<>> /\ is_find = FALSE
    /\ lrf_opt = <<>> /\ lrf_phase = "idle" /\ lrf_nbatch = 0 /\ lrf_nuntrig = 0

CallbacksIdle ==
    /\ callbacks = <<>> /\ cb_hook = "none" /\ cb_stack = <<>> /\ cb_active = 0
    /\ cb_outcome = "idle" /\ cb_log = <<>>

MiningIdle ==
    hnm_cls_loss = <<>> /\ hnm_pos = <<>> /\ hnm_neg = <<>> /\ hnm_phase = "idle"

SSDLossIdle ==
    /\ loc_preds = <<>> /\ loc_targets = <<>> /\ cls_preds = <<>> /\ cls_targets = <<>>
    /\ ssd_neg = <<>> /\ ssd_loss = None /\ ssd_phase = "idle"

SaverIdle ==
    /\ ms_cfg = None /\ cs_cfg = None /\ metrics_val_loss = 0 /\ metrics_best_loss = 0
    /\ metrics_best_epoch = 0 /\ run_model = 0 /\ run_opt = 0 /\ run_epoch = 0
    /\ files = <<>> /\ sv_done = {} /\ sv_last = None /\ sv_saved = <<>>
    /\ rs_path = <<>> /\ rs_model = 0 /\ rs_opt = 0 /\ rs_outcome = "idle"

InitOneCycle == OneCycleInit /\ LRFinderIdle /\ CallbacksIdle /\ MiningIdle /\ SSDLossIdle
    /\ SaverIdle
SpecOneCycle == InitOneCycle /\ [][OneCycleNext]_vars

InitFinder == LRFinderInit /\ OneCycleIdle /\ CallbacksIdle /\ MiningIdle /\ SSDLossIdle
    /\ SaverIdle
SpecFinder == InitFinder /\ [][LRFinderNext]_vars

InitDispatch == CallbacksInit /\ OneCycleIdle /\ LRFinderIdle /\ MiningIdle /\ SSDLossIdle
    /\ SaverIdle
SpecDispatch == InitDispatch /\ [][CallbacksNext]_vars

InitMining == MiningInit /\ OneCycleIdle /\ LRFinderIdle /\ CallbacksIdle /\ SSDLossIdle
    /\ SaverIdle
SpecMining == InitMining /\ [][MiningNext]_vars

InitLoss == SSDLossInit /\ OneCycleIdle /\ LRFinderIdle /\ CallbacksIdle /\ MiningIdle
    /\ SaverIdle
SpecLoss == InitLoss /\ [][SSDLossNext]_vars

InitSaver ==
    SaverInit /\ OneCycleIdle /\ LRFinderIdle /\ CallbacksIdle /\ MiningIdle /\ SSDLossIdle
SpecSaver == InitSaver /\ [][SaverNext]_vars

====
